---- MODULE Spec2Model ----
(***************************************************************************)
(* QueryCraft agent: the LangGraph pipeline of backend/main.py             *)
(* (retrieve -> generate -> validate -> execute | error) and the SQL       *)
(* safety gate of backend/src/sql_validation.                              *)
(*                                                                         *)
(* A SQL text is a sequence of lexemes; the text it denotes is their       *)
(* concatenation.  A lexeme is a maximal run of word characters (a word    *)
(* or a number), one whitespace character, or one punctuation mark, so     *)
(* the regular expressions of the code (word boundaries, whitespace runs,   *)
(* digit runs, runs of word characters and dots) are decided lexeme by     *)
(* lexeme exactly as Python's re decides them character by character.      *)
(***************************************************************************)
EXTENDS Integers, Sequences, FiniteSets, TLC

VARIABLES
    pc,         \* the node the graph runs next: a node name, "Done" or "Raised"
    state,      \* the run's AgentState: a dict, keys present only once written
    arg,        \* the dict handed to the node that ran last, after the node's
                \* own in-place writes to it
    visited,    \* the nodes that have run, in order
    executed,   \* the SQL texts handed to the database, in order
    hashOrder,  \* iteration order of the FORBIDDEN_KEYWORDS set in this process
    response    \* the QueryOutput returned to the caller: <<>> until there is one

vars == <<pc, state, arg, visited, executed, hashOrder, response>>

(***************************************************************************)
(* Lexemes                                                                 *)
(***************************************************************************)
WS == {" ", "\n"}

\* The Markdown code fence, three backquotes: a TLA+ string cannot hold a
\* backquote, so the lexeme is written with apostrophes.
FENCE == "'''"

Punct == {";", "(", ")", "*", ".", "\"", "=", FENCE}

\* int(): the value of a run of digits.
NumVal ==
    ("1" :> 1) @@ ("5" :> 5) @@ ("100" :> 100) @@ ("101" :> 101) @@ ("5000" :> 5000)

Numbers == DOMAIN NumVal

\* str(): the decimal numeral of an integer.
Str(n) == CHOOSE l \in Numbers : NumVal[l] = n

\* str.lower() on one word.
LowerTable ==
    ("SELECT" :> "select") @@ ("Select" :> "select") @@ ("FROM" :> "from")
    @@ ("JOIN" :> "join") @@ ("LIMIT" :> "limit") @@ ("DROP" :> "drop")
    @@ ("Drop" :> "drop") @@ ("DELETE" :> "delete") @@ ("TABLE" :> "table")
    @@ ("WHERE" :> "where") @@ ("IN" :> "in") @@ ("EXPLAIN" :> "explain")
    @@ ("FOR" :> "for") @@ ("UPDATE" :> "update")
    @@ ("ORDERS" :> "orders") @@ ("Customers" :> "customers")
    @@ ("CURRENT_DATE" :> "current_date") @@ ("SQL" :> "sql")

Lower(l) == IF l \in DOMAIN LowerTable THEN LowerTable[l] ELSE l

IsWord(l) == l \notin WS /\ l \notin Punct

\* [a-zA-Z_]: a word that does not start with a digit.
IsName(l) == IsWord(l) /\ l \notin Numbers

\* str.strip(): leading and trailing whitespace removed.
RECURSIVE LStrip(_)
LStrip(s) == IF s # <<>> /\ Head(s) \in WS THEN LStrip(Tail(s)) ELSE s

RECURSIVE RStrip(_)
RStrip(s) ==
    IF s # <<>> /\ s[Len(s)] \in WS THEN RStrip(SubSeq(s, 1, Len(s) - 1)) ELSE s

Strip(s) == LStrip(RStrip(s))

\* str.rstrip(";")
RECURSIVE RStripSemi(_)
RStripSemi(s) ==
    IF s # <<>> /\ s[Len(s)] = ";" THEN RStripSemi(SubSeq(s, 1, Len(s) - 1)) ELSE s

\* The index of the first lexeme at or after i that is not whitespace
\* (Len(s) + 1 when there is none): where a \s* or \s+ that starts at i ends.
RECURSIVE SkipWS(_, _)
SkipWS(s, i) == IF i <= Len(s) /\ s[i] \in WS THEN SkipWS(s, i + 1) ELSE i

(***************************************************************************)
(* sqlparse, as the code uses it                                           *)
(***************************************************************************)
\* sqlparse.split: a statement ends at a ";" outside parentheses; the spaces
\* after it stay with it, any other lexeme (a newline too) starts the next
\* statement; a last statement of whitespace only is dropped; every
\* statement is returned stripped.
RECURSIVE SplitFrom(_, _, _, _, _)
SplitFrom(s, i, cur, level, consume) ==
    IF i > Len(s)
    THEN IF \E k \in 1..Len(cur) : cur[k] \notin WS THEN <<Strip(cur)>> ELSE <<>>
    ELSE LET l == s[i]
             cut == consume /\ l # " "
             lev0 == IF cut THEN 0 ELSE level
             lev1 == lev0 + (IF l = "(" THEN 1 ELSE IF l = ")" THEN -1 ELSE 0)
             cur1 == (IF cut THEN <<>> ELSE cur) \o <<l>>
             rest == SplitFrom(s, i + 1, cur1, lev1,
                               (lev1 <= 0 /\ l = ";") \/ (consume /\ ~cut))
         IN  IF cut THEN <<Strip(cur)>> \o rest ELSE rest

sqlparse_split(s) == SplitFrom(s, 1, <<>>, 0, FALSE)

(***************************************************************************)
(* sql_validation/utils.py                                                 *)
(***************************************************************************)
\* re.search(rf"\b{kw}\b", sql.lower())
HasKeyword(sql, kw) == \E i \in 1..Len(sql) : Lower(sql[i]) = kw

\* The first element of the iteration order "order" that occurs in sql.
RECURSIVE FirstHit(_, _)
FirstHit(sql, order) ==
    IF order = <<>> THEN <<>>
    ELSE IF HasKeyword(sql, Head(order)) THEN <<Head(order)>>
    ELSE FirstHit(sql, Tail(order))

\* Faulty variant of _contains_forbidden: the scan runs on sql itself, not on
\* sql.lower(), so a keyword written in capitals is missed.
RECURSIVE FirstHitExact(_, _)
FirstHitExact(sql, order) ==
    IF order = <<>> THEN <<>>
    ELSE IF \E i \in 1..Len(sql) : sql[i] = Head(order) THEN <<Head(order)>>
    ELSE FirstHitExact(sql, Tail(order))

ContainsForbiddenCaseSensitive(sql, order) ==
    LET hit == FirstHitExact(sql, order)
        f == SkipWS(sql, 1)
    IN  IF hit # <<>> THEN [raised |-> FALSE, bad |-> hit]
        ELSE IF f > Len(sql) THEN [raised |-> TRUE, bad |-> <<>>]
        ELSE IF Lower(sql[f]) # "select"
             THEN [raised |-> FALSE, bad |-> <<"non-SELECT statement">>]
        ELSE [raised |-> FALSE, bad |-> <<>>]

\* Faulty variant of _contains_forbidden: the keyword scan alone, without the
\* test of the first token.
ContainsForbiddenNoShapeCheck(sql, order) ==
    [raised |-> FALSE, bad |-> FirstHit(sql, order)]

\* _contains_forbidden: <<kw>> for the keyword found, <<"non-SELECT statement">>,
\* <<>> for None; "raise" when sqlparse.parse(sql) is empty and [0] raises
\* IndexError (a text of whitespace only).
_contains_forbidden(sql, order) ==
    LET hit == FirstHit(sql, order)
        f == SkipWS(sql, 1)
    IN  IF hit # <<>> THEN [raised |-> FALSE, bad |-> hit]
        ELSE IF f > Len(sql) THEN [raised |-> TRUE, bad |-> <<>>]
        ELSE IF Lower(sql[f]) # "select"
             THEN [raised |-> FALSE, bad |-> <<"non-SELECT statement">>]
        ELSE [raised |-> FALSE, bad |-> <<>>]

\* The end of the run of word, number and "." lexemes that starts at i:
\* the match of the class [\w\.], repeated, from there.
RECURSIVE RunEnd(_, _)
RunEnd(s, i) ==
    IF i + 1 <= Len(s) /\ (IsWord(s[i + 1]) \/ s[i + 1] = ".")
    THEN RunEnd(s, i + 1) ELSE i

\* m.group(1).split(".")[-1] of the run s[i..j]: its last lexeme, or the
\* empty string when the run ends with a dot.
LastSegment(s, j) == IF s[j] = "." THEN "" ELSE s[j]

\* _extract_tables: re.finditer over "from" or "join" as a whole word, then
\* whitespace, then a name (a letter or underscore, then word characters and
\* dots); matches left to right and not overlapping.
RECURSIVE ExtractFrom(_, _)
ExtractFrom(s, i) ==
    IF i > Len(s) THEN <<>>
    ELSE LET n == SkipWS(s, i + 1)
         IN  IF /\ Lower(s[i]) \in {"from", "join"}
                /\ n > i + 1
                /\ n <= Len(s)
                /\ IsName(s[n])
             THEN <<LastSegment(s, RunEnd(s, n))>> \o ExtractFrom(s, RunEnd(s, n) + 1)
             ELSE ExtractFrom(s, i + 1)

_extract_tables(sql) == ExtractFrom(sql, 1)

\* Whether \blimit\b\s+(\d+) matches at lexeme i.
LimitAt(s, i) ==
    /\ Lower(s[i]) = "limit"
    /\ SkipWS(s, i + 1) > i + 1
    /\ SkipWS(s, i + 1) <= Len(s)
    /\ s[SkipWS(s, i + 1)] \in Numbers

\* re.sub(r"\blimit\b\s+\d+", f"LIMIT {max_limit}", sql)
RECURSIVE SubLimits(_, _, _)
SubLimits(s, i, max_limit) ==
    IF i > Len(s) THEN <<>>
    ELSE IF LimitAt(s, i)
         THEN <<"LIMIT", " ", Str(max_limit)>>
              \o SubLimits(s, SkipWS(s, i + 1) + 1, max_limit)
         ELSE <<s[i]>> \o SubLimits(s, i + 1, max_limit)

RewriteAllLimits(sql, max_limit) == SubLimits(sql, 1, max_limit)

\* _inject_safe_limit
_inject_safe_limit(sql, max_limit) ==
    LET hits == {i \in 1..Len(sql) : LimitAt(sql, i)}
    IN  IF hits # {}
        THEN LET m == CHOOSE i \in hits : \A k \in hits : i <= k
                 current == NumVal[sql[SkipWS(sql, m + 1)]]
             IN  IF current > max_limit
                 THEN RewriteAllLimits(sql, max_limit)
                 ELSE sql
        ELSE RStripSemi(sql) \o <<" ", "LIMIT", " ", Str(max_limit)>>

(***************************************************************************)
(* Dicts: a dict is a function whose domain is the set of keys present.    *)
(***************************************************************************)
\* dict.get(k, default)
Get(d, k, default) == IF k \in DOMAIN d THEN d[k] ELSE default

\* d[k] = v
Put(d, k, v) == [x \in DOMAIN d \cup {k} |-> IF x = k THEN v ELSE d[x]]

\* An error message: its fixed text and the values formatted into it.
Err(msg, detail) == [msg |-> msg, detail |-> detail]

(***************************************************************************)
(* sql_validation/sql_validate_query.py                                    *)
(***************************************************************************)
ALLOWED_TABLES == {"customers", "products", "orders", "CURRENT_DATE"}

FORBIDDEN_KEYWORDS ==
    {"insert", "update", "delete", "drop", "truncate", "alter", "create",
     "grant", "revoke", "call", "execute"}

MAX_LIMIT == 100

\* What a node call comes to: the delta it returns (or the exception it
\* raises) and the dict it was handed, as the node left it.
Returns(st, delta) == [raised |-> FALSE, delta |-> delta, arg |-> st]

Raises(st) == [raised |-> TRUE, delta |-> <<>>, arg |-> st]

Rejects(st, msg, detail) ==
    Returns(st, [is_valid |-> FALSE, error |-> Err(msg, detail)])

\* Faulty variant of validate_sql: the limit is enforced before the tables
\* are checked, and the rewritten text is returned with the rejection too.
ValidateRewritesOnReject(st, order) ==
    LET sql == Get(st, "sql", <<>>)
        cf == _contains_forbidden(sql, order)
        tables == _extract_tables(sql)
        illegal == SelectSeq(tables, LAMBDA t : t \notin ALLOWED_TABLES)
        safe_sql == _inject_safe_limit(sql, MAX_LIMIT)
    IN  IF sql = <<>> THEN Rejects(st, "No SQL to validate.", <<>>)
        ELSE IF cf.raised THEN Raises(st)
        ELSE IF cf.bad # <<>>
             THEN Rejects(st, "Forbidden or invalid SQL detected: ", cf.bad)
        ELSE IF Len(sqlparse_split(sql)) # 1
             THEN Rejects(st, "Multiple SQL statements detected; only one SELECT is allowed.", <<>>)
        ELSE IF tables = <<>>
             THEN Rejects(st, "No table referenced (missing FROM?).", <<>>)
        ELSE IF illegal # <<>>
             THEN [raised |-> FALSE,
                   delta |-> [is_valid |-> FALSE, sql |-> safe_sql,
                              error |-> Err("Illegal table(s): ", illegal)],
                   arg |-> Put(st, "sql", safe_sql)]
        ELSE [raised |-> FALSE,
              delta |-> [is_valid |-> TRUE],
              arg |-> Put(st, "sql", safe_sql)]

\* validate_sql(state); "order" is the order in which this process iterates
\* over the FORBIDDEN_KEYWORDS set.
validate_sql(st, order) ==
    LET sql == Get(st, "sql", <<>>)
        cf == _contains_forbidden(sql, order)
        tables == _extract_tables(sql)
        illegal == SelectSeq(tables, LAMBDA t : t \notin ALLOWED_TABLES)
    IN  IF sql = <<>> THEN Rejects(st, "No SQL to validate.", <<>>)
        ELSE IF cf.raised THEN Raises(st)
        ELSE IF cf.bad # <<>>
             THEN Rejects(st, "Forbidden or invalid SQL detected: ", cf.bad)
        ELSE IF Len(sqlparse_split(sql)) # 1
             THEN Rejects(st, "Multiple SQL statements detected; only one SELECT is allowed.", <<>>)
        ELSE IF tables = <<>>
             THEN Rejects(st, "No table referenced (missing FROM?).", <<>>)
        ELSE IF illegal # <<>>
             THEN Rejects(st, "Illegal table(s): ", illegal)
        ELSE [raised |-> FALSE,
              delta |-> [is_valid |-> TRUE],
              arg |-> Put(st, "sql", _inject_safe_limit(sql, MAX_LIMIT))]

(***************************************************************************)
(* sql_generation/sql_generate_query.py                                    *)
(***************************************************************************)
\* SQL_MAX_LIMIT as the generator module reads it: the same environment
\* variable, read in the same process.
GEN_MAX_LIMIT == MAX_LIMIT

\* ^ and $ under re.MULTILINE.
LineStart(s, i) == i = 1 \/ s[i - 1] = "\n"

LineEnd(s, i) == i = Len(s) \/ s[i + 1] = "\n"

\* re.sub over raw with IGNORECASE | MULTILINE: a fence at a line start with
\* an optional "sql" tag and the whitespace after it, or a fence at a line
\* end with the whitespace before it, is replaced by nothing.
RECURSIVE SubFences(_, _)
SubFences(s, i) ==
    IF i > Len(s) THEN <<>>
    ELSE IF s[i] = FENCE /\ LineStart(s, i)
         THEN SubFences(s, SkipWS(s, IF i + 1 <= Len(s) /\ Lower(s[i + 1]) = "sql"
                                     THEN i + 2 ELSE i + 1))
    ELSE IF /\ SkipWS(s, i) <= Len(s)
            /\ s[SkipWS(s, i)] = FENCE
            /\ LineEnd(s, SkipWS(s, i))
         THEN SubFences(s, SkipWS(s, i) + 1)
    ELSE <<s[i]>> \o SubFences(s, i + 1)

StripFences(raw) == Strip(SubFences(raw, 1))

\* re.search(r"\blimit\b\s+\d+\s*$", sql, flags=IGNORECASE) is not None
HasTrailingLimit(sql) ==
    \E i \in 1..Len(sql) :
        LimitAt(sql, i) /\ SkipWS(sql, SkipWS(sql, i + 1) + 1) > Len(sql)

\* Faulty variant of llm_generate_sql: no LIMIT is appended.
GenerateWithoutLimit(st, llm) ==
    IF llm.kind = "raise" THEN Raises(st)
    ELSE IF llm.status # 200
         THEN Returns(st, [error |-> Err("LLM error ", <<ToString(llm.status), llm.body>>)])
    ELSE LET statements == sqlparse_split(StripFences(Strip(llm.response)))
         IN  IF statements = <<>>
             THEN Returns(st, [error |-> Err("LLM returned empty SQL.", <<>>)])
             ELSE Returns(st, [sql |-> RStripSemi(Strip(statements[1]))])

\* Faulty variant of llm_generate_sql: the whole cleaned completion is kept,
\* not its first statement only.
GenerateWholeCompletion(st, llm) ==
    IF llm.kind = "raise" THEN Raises(st)
    ELSE IF llm.status # 200
         THEN Returns(st, [error |-> Err("LLM error ", <<ToString(llm.status), llm.body>>)])
    ELSE LET cleaned == StripFences(Strip(llm.response))
             sql == RStripSemi(cleaned)
         IN  IF cleaned = <<>>
             THEN Returns(st, [error |-> Err("LLM returned empty SQL.", <<>>)])
             ELSE IF HasTrailingLimit(sql)
                  THEN Returns(st, [sql |-> sql])
                  ELSE Returns(st, [sql |-> sql \o <<" ", "LIMIT", " ", Str(GEN_MAX_LIMIT)>>])

\* llm_generate_sql(state); "llm" is what the completion service does.
llm_generate_sql(st, llm) ==
    IF llm.kind = "raise" THEN Raises(st)
    ELSE IF llm.status # 200
         THEN Returns(st, [error |-> Err("LLM error ", <<ToString(llm.status), llm.body>>)])
    ELSE LET statements == sqlparse_split(StripFences(Strip(llm.response)))
             sql == RStripSemi(Strip(statements[1]))
         IN  IF statements = <<>>
             THEN Returns(st, [error |-> Err("LLM returned empty SQL.", <<>>)])
             ELSE IF HasTrailingLimit(sql)
                  THEN Returns(st, [sql |-> sql])
                  ELSE Returns(st, [sql |-> sql \o <<" ", "LIMIT", " ", Str(GEN_MAX_LIMIT)>>])

\* Faulty variant of end_error: the handler clears the sql of the run.
EndErrorDropsSql(st) == Returns(st, Put(st, "sql", <<>>))

\* end_error(state): the state itself is the delta.
end_error(st) == Returns(st, st)

(***************************************************************************)
(* retriver/retrieve.py, sql_execution/sql_execute_query.py                *)
(***************************************************************************)
TOP_K == 5

\* list(set(tables))
RECURSIVE Range(_)
Range(s) == IF s = <<>> THEN {} ELSE {Head(s)} \cup Range(Tail(s))

\* retrieve_schema_context(state); "qd" is what the search index does with
\* limit = TOP_K: it raises, or returns its ranked matches.
retrieve_schema_context(st, qd) ==
    IF qd.kind = "raise" \/ Len(qd.results) > TOP_K THEN Raises(st)
    ELSE Returns(st,
            [context_chunks |-> [i \in 1..Len(qd.results) |-> qd.results[i].document],
             tables_in_scope |-> Range([i \in 1..Len(qd.results) |-> qd.results[i].table])])

\* Faulty variant of execute_sql_query: the except branch also returns an
\* empty row list.
ExecuteErrorWithRows(st, db) ==
    IF db.kind = "raise"
    THEN [raised |-> FALSE, arg |-> st,
          delta |-> [rows |-> <<>>, error |-> [msg |-> "DB error: ", detail |-> <<db.cause>>]]]
    ELSE [raised |-> FALSE, arg |-> st, delta |-> [rows |-> db.rows]]

\* Faulty variant of execute_sql_query: the except branch also withdraws the
\* verdict and the text.
ExecuteErrorDropsVerdict(st, db) ==
    IF "sql" \notin DOMAIN st THEN Raises(st)
    ELSE IF db.kind = "raise"
         THEN Returns(st, [error |-> Err("DB error: ", <<db.cause>>),
                           is_valid |-> FALSE, sql |-> <<>>])
         ELSE Returns(st, [rows |-> db.rows])

\* execute_sql_query(state); "db" is what the database does with the text.
execute_sql_query(st, db) ==
    IF "sql" \notin DOMAIN st THEN Raises(st)
    ELSE IF db.kind = "raise"
         THEN Returns(st, [error |-> Err("DB error: ", <<db.cause>>)])
         ELSE Returns(st, [rows |-> db.rows])

(***************************************************************************)
(* backend/main.py: the graph                                              *)
(***************************************************************************)
\* Faulty variant of Merge: the delta replaces the state.
MergeReplace(st, delta) == delta

\* The channel update LangGraph applies after a node: every key of the delta
\* takes the delta's value, every other key keeps its own.
Merge(st, delta) ==
    [k \in DOMAIN st \cup DOMAIN delta |-> IF k \in DOMAIN delta THEN delta[k] ELSE st[k]]

\* Faulty variant of Route: the edge out of validate_sql_query made
\* unconditional.
RouteIgnoringVerdict(st) == "execute_sql_query"

\* The conditional edge out of validate_sql_query: the path lambda, then
\* the path_map.
Route(st) ==
    IF Get(st, "is_valid", FALSE) THEN "execute_sql_query" ELSE "error"

\* result.get(k): <<v>> for a value, <<>> for None.
OptGet(d, k) == IF k \in DOMAIN d THEN <<d[k]>> ELSE <<>>

\* QueryOutput(...) as agent_query builds it: the fields the pydantic model
\* declares; keyword arguments it does not declare are ignored.
QueryOutput(result, run_id) ==
    [sql |-> OptGet(result, "sql"),
     rows |-> OptGet(result, "rows"),
     error |-> OptGet(result, "error"),
     run_id |-> run_id]

(***************************************************************************)
(* Bounds and the inputs drawn within them                                 *)
(***************************************************************************)
\* Clauses after the head of a text handed to validate_sql.
MaxClauses == 2

\* Clauses after the head of a completion of the LLM.
MaxRawClauses == 2

\* Matches the search index returns.
MaxResults == 2

Questions == {"How many orders?", "  Top customers  "}

\* Two iteration orders of the FORBIDDEN_KEYWORDS set: Python fixes the order
\* of a set of strings per process, by the process's hash seed.
KwOrders ==
    {<<"insert", "update", "delete", "drop", "truncate", "alter", "create",
       "grant", "revoke", "call", "execute">>,
     <<"execute", "call", "revoke", "grant", "create", "alter", "truncate",
       "drop", "delete", "update", "insert">>}

Heads ==
    {<<>>,
     <<"SELECT", " ", "*">>,
     <<"select", " ", "name">>,
     <<"SELECT", " ", "call">>,
     <<"EXPLAIN", " ", "SELECT", " ", "*">>,
     <<"DELETE">>}

Clauses ==
    {<<" ", "FROM", " ", "orders">>,
     <<" ", "FROM", " ", "secrets">>,
     <<" ", "from", " ", "ORDERS">>,
     <<" ", "FROM", " ", "orders_archive">>,
     <<" ", "FROM", " ", "public", ".", "orders">>,
     <<" ", "JOIN", " ", "customers">>,
     <<" ", "JOIN", " ", "\"", "secrets", "\"">>,
     <<" ", "FROM", " ", "CURRENT_DATE">>,
     <<" ", "FOR", " ", "UPDATE">>,
     <<" ", "LIMIT", " ", "5">>,
     <<" ", "limit", " ", "100">>,
     <<" ", "LIMIT", " ", "5000">>,
     <<" ", "FROM", " ", "orders", " ", "WHERE", " ", "id", " ", "IN", " ", "(",
       "SELECT", " ", "id", " ", "FROM", " ", "products", " ", "LIMIT", " ", "5", ")">>}

Tails ==
    {<<>>,
     <<";">>,
     <<" ">>,
     <<";", " ">>,
     <<";", " ", "select", " ", "1">>,
     <<";", " ", "DROP", " ", "TABLE", " ", "orders", ";">>}

RECURSIVE Concat(_)
Concat(ss) == IF ss = <<>> THEN <<>> ELSE Head(ss) \o Concat(Tail(ss))

\* Every sequence of at most n elements of S.
SeqsUpTo(S, n) == UNION {[1..k -> S] : k \in 0..n}

\* The texts validate_sql is applied to.
Texts ==
    {h \o Concat(cs) \o t : h \in Heads, cs \in SeqsUpTo(Clauses, MaxClauses), t \in Tails}

RawHeads == {<<>>, <<"SELECT", " ", "*">>}

RawClauses ==
    {<<" ", "FROM", " ", "orders">>,
     <<" ", "FROM", " ", "secrets">>,
     <<" ", "LIMIT", " ", "5">>,
     <<" ", "LIMIT", " ", "5000">>}

RawTails ==
    {<<>>, <<";">>, <<";", " ", "DROP", " ", "TABLE", " ", "orders", ";">>}

\* A completion bare, fenced with the sql tag, and fenced without it.
Fenced(t) ==
    {t, <<FENCE, "sql", "\n">> \o t \o <<"\n", FENCE>>, <<FENCE, "\n">> \o t \o <<"\n", FENCE>>}

\* The completions of the LLM.
RawTexts ==
    UNION {Fenced(h \o Concat(cs) \o t) :
             h \in RawHeads, cs \in SeqsUpTo(RawClauses, MaxRawClauses), t \in RawTails}

\* What the completion service does with a prompt.
LLMOutcomes ==
    {[kind |-> "raise"], [kind |-> "answer", status |-> 500, body |-> "overloaded"]}
    \cup {[kind |-> "answer", status |-> 200, response |-> r] : r \in RawTexts}

Matches ==
    {[document |-> "CREATE TABLE orders", table |-> "orders"],
     [document |-> "orders.status is an enum", table |-> "orders"]}

\* What the search index does with a question.
QdrantOutcomes ==
    {[kind |-> "raise"]}
    \cup {[kind |-> "ok", results |-> rs] : rs \in SeqsUpTo(Matches, MaxResults)}

\* What the database does with a query.
DBOutcomes ==
    {[kind |-> "raise", cause |-> "connection refused"],
     [kind |-> "rows", rows |-> <<>>],
     [kind |-> "rows", rows |-> <<[id |-> 1]>>]}

RunIds == {"run-a", "run-b"}

(***************************************************************************)
(* The run of one request: agent_query and the compiled graph              *)
(***************************************************************************)
Init ==
    /\ pc = "retrieve_schema_context"
    /\ \E q \in Questions : state = [question |-> q]
    /\ arg = <<>>
    /\ visited = <<>>
    /\ executed = <<>>
    /\ hashOrder \in KwOrders
    /\ response = <<>>

\* Faulty variant of Step: a node that raised is run again.
StepWithRetry(node, r, next) ==
    /\ visited' = Append(visited, node)
    /\ arg' = r.arg
    /\ state' = IF r.raised THEN state ELSE Merge(state, r.delta)
    /\ pc' = IF r.raised THEN node ELSE next
    /\ UNCHANGED <<hashOrder, response>>

\* A node has run and come to r: the graph merges the delta it returned and
\* goes on to next, or the exception it raised leaves ainvoke and agent_query.
Step(node, r, next) ==
    /\ visited' = Append(visited, node)
    /\ arg' = r.arg
    /\ state' = IF r.raised THEN state ELSE Merge(state, r.delta)
    /\ pc' = IF r.raised THEN "Raised" ELSE next
    /\ UNCHANGED <<hashOrder, response>>

Retrieve ==
    /\ pc = "retrieve_schema_context"
    /\ \E qd \in QdrantOutcomes :
          Step("retrieve_schema_context", retrieve_schema_context(state, qd),
               "generate_sql_query")
    /\ UNCHANGED executed

Generate ==
    /\ pc = "generate_sql_query"
    /\ \E llm \in LLMOutcomes :
          Step("generate_sql_query", llm_generate_sql(state, llm), "validate_sql_query")
    /\ UNCHANGED executed

Validate ==
    /\ pc = "validate_sql_query"
    /\ LET r == validate_sql(state, hashOrder)
       IN  Step("validate_sql_query", r, Route(Merge(state, r.delta)))
    /\ UNCHANGED executed

Execute ==
    /\ pc = "execute_sql_query"
    /\ \E db \in DBOutcomes :
          Step("execute_sql_query", execute_sql_query(state, db), "END")
    /\ executed' = IF "sql" \in DOMAIN state THEN Append(executed, state.sql) ELSE executed

ErrorNode ==
    /\ pc = "error"
    /\ Step("error", end_error(state), "END")
    /\ UNCHANGED executed

Respond ==
    /\ pc = "END"
    /\ \E id \in RunIds : response' = <<QueryOutput(state, id)>>
    /\ pc' = "Done"
    /\ UNCHANGED <<state, arg, visited, executed, hashOrder>>

Next == Retrieve \/ Generate \/ Validate \/ Execute \/ ErrorNode \/ Respond

Spec == Init /\ [][Next]_vars

(***************************************************************************)
(* validate_sql on its own, applied to every text of Texts                 *)
(***************************************************************************)
InitValidate ==
    /\ pc = "validate_sql_query"
    /\ state \in {[question |-> "How many orders?"]}
                 \cup {[question |-> "How many orders?", sql |-> t] : t \in Texts}
    /\ arg = <<>>
    /\ visited = <<>>
    /\ executed = <<>>
    /\ hashOrder \in KwOrders
    /\ response = <<>>

ValidateSpec == InitValidate /\ [][Validate]_vars

(***************************************************************************)
(* validate_sql applied again to the dict it accepted and wrote to          *)
(***************************************************************************)
\* validate(validate(sql).sql): the dict of the accepted call, which holds the
\* rewritten text under "sql", goes through validate_sql once more.
Revalidate ==
    /\ pc = "execute_sql_query"
    /\ visited = <<"validate_sql_query">>
    /\ LET r == validate_sql(arg, hashOrder)
       IN  /\ visited' = Append(visited, "validate_sql_query")
           /\ arg' = r.arg
           /\ state' = IF r.raised THEN arg ELSE Merge(arg, r.delta)
           /\ pc' = IF r.raised THEN "Raised" ELSE Route(Merge(arg, r.delta))
    /\ UNCHANGED <<executed, hashOrder, response>>

RevalidateSpec == InitValidate /\ [][Validate \/ Revalidate]_vars

(***************************************************************************)
(* Two requests in flight in one server process.  Every variable but       *)
(* hashOrder holds, for each of the two, what it holds for one request in   *)
(* Spec; hashOrder, the compiled graph and the module constants are the     *)
(* process's own and are only read.  agent_query awaits ainvoke, so the     *)
(* nodes of the two runs interleave in any order.                           *)
(***************************************************************************)
\* The collaborators' answers the two runs draw from.
ConcQdrantOutcomes == {qd \in QdrantOutcomes : qd.kind = "raise" \/ Len(qd.results) <= 1}

ConcLLMOutcomes ==
    {[kind |-> "raise"],
     [kind |-> "answer", status |-> 500, body |-> "overloaded"],
     [kind |-> "answer", status |-> 200,
      response |-> <<"SELECT", " ", "*", " ", "FROM", " ", "orders", " ", "LIMIT", " ", "5000">>],
     [kind |-> "answer", status |-> 200,
      response |-> <<"SELECT", " ", "*", " ", "FROM", " ", "secrets">>]}

\* What the node "node" can come to when it is handed the dict st.
NodeResults(node, st, order) ==
    CASE node = "retrieve_schema_context" ->
            {retrieve_schema_context(st, qd) : qd \in ConcQdrantOutcomes}
      [] node = "generate_sql_query" ->
            {llm_generate_sql(st, llm) : llm \in ConcLLMOutcomes}
      [] node = "validate_sql_query" -> {validate_sql(st, order)}
      [] node = "execute_sql_query" ->
            {execute_sql_query(st, db) : db \in DBOutcomes}
      [] node = "error" -> {end_error(st)}

\* The edge out of "node" once its delta is merged.
NextNode(node, merged) ==
    CASE node = "retrieve_schema_context" -> "generate_sql_query"
      [] node = "generate_sql_query" -> "validate_sql_query"
      [] node = "validate_sql_query" -> Route(merged)
      [] node = "execute_sql_query" -> "END"
      [] node = "error" -> "END"

Nodes ==
    {"retrieve_schema_context", "generate_sql_query", "validate_sql_query",
     "execute_sql_query", "error"}

\* Faulty variant of Handed: one state dict for the whole process, the one
\* of the request that came first.
HandedShared(states, r) == states["run-a"]

\* The dict ainvoke hands a node of run r: built from the channels of that
\* run, which started as the "initial" dict of its own agent_query call.
Handed(states, r) == states[r]

ConcurrentInit ==
    /\ pc = [r \in RunIds |-> "retrieve_schema_context"]
    /\ state \in [RunIds -> {[question |-> q] : q \in Questions}]
    /\ arg = [r \in RunIds |-> <<>>]
    /\ visited = [r \in RunIds |-> <<>>]
    /\ executed = [r \in RunIds |-> <<>>]
    /\ hashOrder \in KwOrders
    /\ response = [r \in RunIds |-> <<>>]

\* Run r runs the node it is at.
RunNode(r) ==
    /\ pc[r] \in Nodes
    /\ \E res \in NodeResults(pc[r], Handed(state, r), hashOrder) :
          LET merged == IF res.raised THEN state[r] ELSE Merge(state[r], res.delta)
          IN  /\ visited' = [visited EXCEPT ![r] = Append(@, pc[r])]
              /\ arg' = [arg EXCEPT ![r] = res.arg]
              /\ state' = [state EXCEPT ![r] = merged]
              /\ pc' = [pc EXCEPT ![r] = IF res.raised THEN "Raised"
                                         ELSE NextNode(pc[r], merged)]
              /\ executed' =
                    IF pc[r] = "execute_sql_query" /\ "sql" \in DOMAIN Handed(state, r)
                    THEN [executed EXCEPT ![r] = Append(@, Handed(state, r).sql)]
                    ELSE executed
    /\ UNCHANGED <<hashOrder, response>>

\* agent_query of run r builds its response.
RunRespond(r) ==
    /\ pc[r] = "END"
    /\ response' = [response EXCEPT ![r] = <<QueryOutput(state[r], r)>>]
    /\ pc' = [pc EXCEPT ![r] = "Done"]
    /\ UNCHANGED <<state, arg, visited, executed, hashOrder>>

ConcurrentNext == \E r \in RunIds : RunNode(r) \/ RunRespond(r)

ConcurrentSpec == ConcurrentInit /\ [][ConcurrentNext]_vars

(***************************************************************************)
(* Vocabulary of the properties                                            *)
(***************************************************************************)
Ran(node) == \E i \in 1..Len(visited) : visited[i] = node

\* validate_sql is the node that ran last.
JustValidated == visited # <<>> /\ visited[Len(visited)] = "validate_sql_query"

\* The text validate_sql was given (no delta of validate_sql holds "sql", so
\* the merge leaves the key as it was) and the text it wrote into its dict.
ValidatedText == Get(state, "sql", <<>>)

Rewritten == Get(arg, "sql", <<>>)

Accepted == JustValidated /\ pc = "execute_sql_query" /\ Get(state, "is_valid", FALSE)

Rejected ==
    JustValidated /\ pc = "error" /\ "is_valid" \in DOMAIN state /\ ~state.is_valid

HasToken(sql) == SkipWS(sql, 1) <= Len(sql)

FirstToken(sql) == sql[SkipWS(sql, 1)]

ContainsDenylisted(sql) == \E i \in 1..Len(sql) : Lower(sql[i]) \in FORBIDDEN_KEYWORDS

ContainsLimit(sql) == \E i \in 1..Len(sql) : Lower(sql[i]) = "limit"

\* Every LIMIT n of the text has n <= max.
LimitsWithin(sql, max) ==
    \A i \in 1..Len(sql) : LimitAt(sql, i) => NumVal[sql[SkipWS(sql, i + 1)]] <= max

\* The text ends with LIMIT n, n <= max; only whitespace and semicolons may
\* follow the number.
EndsWithLimitWithin(sql, max) ==
    \E i \in 1..Len(sql) :
        /\ LimitAt(sql, i)
        /\ NumVal[sql[SkipWS(sql, i + 1)]] <= max
        /\ \A k \in (SkipWS(sql, i + 1) + 1)..Len(sql) : sql[k] \in WS \cup {";"}

\* The table identifier that follows the from or join at lexeme i, bare (its
\* last dotted segment) or in double quotes: <<name>>, or <<>> for none.
RefAt(s, i) ==
    LET n == SkipWS(s, i + 1)
    IN  IF Lower(s[i]) \notin {"from", "join"} \/ n = i + 1 \/ n > Len(s) THEN <<>>
        ELSE IF IsName(s[n]) THEN <<LastSegment(s, RunEnd(s, n))>>
        ELSE IF s[n] = "\"" /\ n + 2 <= Len(s) /\ IsName(s[n + 1]) /\ s[n + 2] = "\""
             THEN <<s[n + 1]>>
        ELSE <<>>

TableRefs(s) == {RefAt(s, i)[1] : i \in {j \in 1..Len(s) : RefAt(s, j) # <<>>}}

NonSelectError == Err("Forbidden or invalid SQL detected: ", <<"non-SELECT statement">>)

(***************************************************************************)
(* Properties                                                              *)
(***************************************************************************)
\* C1: the execute node runs, and the database is handed a text, only after
\* validate_sql of the same run set is_valid to true; once validate_sql has
\* left is_valid false or absent, the run is at or past the error node and
\* the executor has not run.
C1_ExecuteOnlyIfValid ==
    /\ (pc = "execute_sql_query" \/ Ran("execute_sql_query") \/ executed # <<>>)
          => Ran("validate_sql_query") /\ Get(state, "is_valid", FALSE)
    /\ (Ran("validate_sql_query") /\ ~Get(state, "is_valid", FALSE))
          => /\ pc \in {"error", "END", "Done"}
             /\ pc # "error" => Ran("error")
             /\ ~Ran("execute_sql_query")
             /\ executed = <<>>

C1_Witness == pc = "Done" /\ Ran("execute_sql_query") /\ executed # <<>>

\* C2: the sql the executor runs and the sql of the response is the text
\* validate_sql rewrote: when the graph hands over to the executor the sql of
\* the state is the rewritten one, the database is never handed a LIMIT above
\* MAX_LIMIT, and the response carries the executed text.
C2_ExecutedSqlIsRewritten ==
    /\ pc = "execute_sql_query" => state.sql = Rewritten
    /\ \A i \in 1..Len(executed) : LimitsWithin(executed[i], MAX_LIMIT)
    /\ (pc = "Done" /\ executed # <<>>) => response[1].sql = <<executed[1]>>

\* C3: no exception raised inside a node leaves the run.
C3_NoExceptionEscapes == pc # "Raised"

\* C4: once the error key of the state is set, no later step changes it.
C4_ErrorFirstWriterWins ==
    [][("error" \in DOMAIN state)
          => ("error" \in DOMAIN state' /\ state'.error = state.error)]_vars

\* C5: at the end of the graph and in the response exactly one of rows and
\* error is set (an empty row list is a set rows), and a run that has no sql
\* has error set and rows absent.
C5_RowsXorError ==
    /\ pc \in {"END", "Done"} =>
          /\ ("rows" \in DOMAIN state) # ("error" \in DOMAIN state)
          /\ "sql" \notin DOMAIN state => "error" \in DOMAIN state
    /\ pc = "Done" =>
          /\ (response[1].rows # <<>>) # (response[1].error # <<>>)
          /\ response[1].sql = <<>> => (response[1].error # <<>> /\ response[1].rows = <<>>)

C5_Witness == pc = "Done" /\ response[1].rows = << <<>> >> /\ response[1].error = <<>>

\* C6: a text that holds a denylisted keyword as a whole word, in any letter
\* case, is rejected, whatever tables it names.
C6_DenylistedRejected ==
    (JustValidated /\ ContainsDenylisted(ValidatedText)) => Rejected

\* A single SELECT over allow-listed tables only, rejected for its keyword.
C6_Witness ==
    /\ Rejected
    /\ ContainsDenylisted(ValidatedText)
    /\ HasToken(ValidatedText)
    /\ Lower(FirstToken(ValidatedText)) = "select"
    /\ Len(sqlparse_split(ValidatedText)) = 1
    /\ TableRefs(ValidatedText) # {}
    /\ TableRefs(ValidatedText) \subseteq ALLOWED_TABLES

\* C7: a text in which a table identifier that follows from or join is
\* outside the allow-list is rejected.
C7_IllegalTableRejected ==
    (JustValidated /\ \E t \in TableRefs(ValidatedText) : t \notin ALLOWED_TABLES)
        => Rejected

\* C8: every accepted text comes back ending with a LIMIT of at most
\* MAX_LIMIT.
C8_AcceptedEndsWithBoundedLimit ==
    Accepted => EndsWithLimitWithin(Rewritten, MAX_LIMIT)

\* C9 as stated: a text whose first token is not select is rejected with the
\* non-SELECT reason.
C9_NonSelectReason ==
    (JustValidated /\ HasToken(ValidatedText)
       /\ Lower(FirstToken(ValidatedText)) # "select")
        => (Rejected /\ state.error = NonSelectError)

\* C9 amended: a text whose first token is not select is rejected; the reason
\* is the non-SELECT reason when the text holds no denylisted keyword, and
\* names a denylisted keyword of the text when it holds one.
C9_NonSelectRejected ==
    (JustValidated /\ HasToken(ValidatedText)
       /\ Lower(FirstToken(ValidatedText)) # "select")
        => /\ Rejected
           /\ IF ContainsDenylisted(ValidatedText)
              THEN /\ state.error.msg = "Forbidden or invalid SQL detected: "
                   /\ Len(state.error.detail) = 1
                   /\ state.error.detail[1] \in FORBIDDEN_KEYWORDS
                   /\ HasKeyword(ValidatedText, state.error.detail[1])
              ELSE state.error = NonSelectError

C9_Witness ==
    /\ Rejected
    /\ HasToken(ValidatedText)
    /\ Lower(FirstToken(ValidatedText)) = "explain"
    /\ ~ContainsDenylisted(ValidatedText)
    /\ state.error = NonSelectError

\* C10: a text that is one SELECT statement, names allow-listed tables only
\* and has no LIMIT clause is accepted and comes back followed by
\* LIMIT MAX_LIMIT.  Read with the policy's own precedence and tolerance: the
\* text holds no denylisted keyword, table names are matched without regard
\* to letter case or quoting, and a trailing semicolon may be dropped.
C10_PlainSelectGetsLimit ==
    (/\ JustValidated
     /\ HasToken(ValidatedText)
     /\ Lower(FirstToken(ValidatedText)) = "select"
     /\ Len(sqlparse_split(ValidatedText)) = 1
     /\ ~ContainsDenylisted(ValidatedText)
     /\ TableRefs(ValidatedText) # {}
     /\ \A t \in TableRefs(ValidatedText) : \E a \in ALLOWED_TABLES : Lower(t) = Lower(a)
     /\ ~ContainsLimit(ValidatedText))
        => /\ Accepted
           /\ Rewritten = RStripSemi(ValidatedText) \o <<" ", "LIMIT", " ", Str(MAX_LIMIT)>>

\* The text with every LIMIT n, n > max, replaced by LIMIT max and every
\* other lexeme kept: what capping each LIMIT clause on its own comes to.
RECURSIVE CapLimits(_, _, _)
CapLimits(s, i, max) ==
    IF i > Len(s) THEN <<>>
    ELSE IF LimitAt(s, i) /\ NumVal[s[SkipWS(s, i + 1)]] > max
         THEN <<"LIMIT", " ", Str(max)>> \o CapLimits(s, SkipWS(s, i + 1) + 1, max)
         ELSE <<s[i]>> \o CapLimits(s, i + 1, max)

\* C11: an accepted text with an explicit LIMIT n comes back with LIMIT
\* MAX_LIMIT in the place of every LIMIT n above MAX_LIMIT, and unchanged
\* when no LIMIT n of it is above MAX_LIMIT.
C11_ExplicitLimitCapped ==
    (Accepted /\ \E i \in 1..Len(ValidatedText) : LimitAt(ValidatedText, i))
        => Rewritten = CapLimits(ValidatedText, 1, MAX_LIMIT)

\* C12: validate_sql applied to the text it accepted and rewrote accepts it
\* again and leaves it as it is.
C12_ValidateIdempotent ==
    visited = <<"validate_sql_query", "validate_sql_query">>
        => /\ pc = "execute_sql_query"
           /\ Get(state, "is_valid", FALSE)
           /\ Rewritten = ValidatedText

EmptySqlError == Err("LLM returned empty SQL.", <<>>)

\* C13: once the generator has written "LLM returned empty SQL." the run
\* holds no sql and validate_sql is not run: the graph does not hand over to
\* it, and it is never called with that error in the state.
C13_EmptyCompletionSkipsValidate ==
    /\ ("error" \in DOMAIN state /\ state.error = EmptySqlError)
          => ("sql" \notin DOMAIN state /\ pc # "validate_sql_query")
    /\ JustValidated => ~("error" \in DOMAIN arg /\ arg.error = EmptySqlError)

\* The completion of end-to-end scenario 2 and the sql the generator makes
\* of it.
Scenario2Raw ==
    <<"SELECT", " ", "*", " ", "FROM", " ", "secrets", ";", " ",
      "DROP", " ", "TABLE", " ", "orders", ";">>

Scenario2Sql ==
    llm_generate_sql([question |-> "How many orders?"],
                     [kind |-> "answer", status |-> 200, response |-> Scenario2Raw]).delta.sql

Scenario2Done == pc = "Done" /\ "sql" \in DOMAIN state /\ state.sql = Scenario2Sql

\* C14 as stated: the run of scenario 2 ends on the error path with the
\* forbidden-keyword rejection that cites drop.
C14_Scenario2CitesDrop ==
    Scenario2Done
        => /\ visited[Len(visited)] = "error"
           /\ response[1].error = <<Err("Forbidden or invalid SQL detected: ", <<"drop">>)>>

\* C14 amended: the generator keeps the first statement only, so the run of
\* scenario 2 ends on the error path with the illegal-table rejection that
\* cites secrets, and the executor is not run.
C14_Scenario2CitesIllegalTable ==
    Scenario2Done
        => /\ visited[Len(visited)] = "error"
           /\ ~Ran("execute_sql_query")
           /\ response[1].error = <<Err("Illegal table(s): ", <<"secrets">>)>>

C14_Witness ==
    /\ Scenario2Done
    /\ Ran("error")
    /\ ~HasKeyword(state.sql, "drop")
    /\ HasKeyword(Scenario2Raw, "drop")

\* What run r holds: its position, state, last node's dict, nodes run, texts
\* executed and response.
RunOf(r) == <<pc[r], state[r], arg[r], visited[r], executed[r], response[r]>>

RunOfNext(r) == <<pc'[r], state'[r], arg'[r], visited'[r], executed'[r], response'[r]>>

\* The step is one of run r alone, and what it comes to follows from what
\* run r itself held and from the answer its own collaborator gave.
OwnStep(r) ==
    /\ \A o \in RunIds \ {r} : RunOfNext(o) = RunOf(o)
    /\ IF pc[r] = "END"
       THEN RunOfNext(r) = <<"Done", state[r], arg[r], visited[r], executed[r],
                             <<QueryOutput(state[r], r)>> >>
       ELSE /\ pc[r] \in Nodes
            /\ visited'[r] = Append(visited[r], pc[r])
            /\ response'[r] = response[r]
            /\ executed'[r] =
                  IF pc[r] = "execute_sql_query" /\ "sql" \in DOMAIN state[r]
                  THEN Append(executed[r], state[r].sql) ELSE executed[r]
            /\ \E res \in NodeResults(pc[r], state[r], hashOrder) :
                  /\ arg'[r] = res.arg
                  /\ state'[r] = IF res.raised THEN state[r] ELSE Merge(state[r], res.delta)
                  /\ pc'[r] = IF res.raised THEN "Raised" ELSE NextNode(pc[r], state'[r])

\* C15: under every interleaving of two runs, each step reads and writes the
\* state of one run only, so what a run ends with depends on its own
\* question and its own collaborators' answers.
C15_RunsShareNoState == [][\E r \in RunIds : OwnStep(r)]_vars

\* Both runs are over, one with rows and one with an error, for different
\* questions.
C15_Witness ==
    /\ \A r \in RunIds : pc[r] = "Done"
    /\ state["run-a"].question # state["run-b"].question
    /\ response["run-a"][1].rows # <<>>
    /\ response["run-b"][1].error # <<>>
    /\ response["run-a"][1].sql # response["run-b"][1].sql

\* C16: the response exposes tables_in_scope and context_chunks with the
\* values retrieval wrote into the state, next to sql, rows, error and run_id.
C16_ResponseExposesContext ==
    pc = "Done"
        => /\ {"sql", "rows", "error", "run_id"} \subseteq DOMAIN response[1]
           /\ {"tables_in_scope", "context_chunks"} \subseteq DOMAIN response[1]
           /\ response[1].tables_in_scope = OptGet(state, "tables_in_scope")
           /\ response[1].context_chunks = OptGet(state, "context_chunks")

\* The text validate_sql was called with comes back rejected with this
\* message.
RejectedWith(msg) == Rejected /\ state.error.msg = msg

\* C17: the reason reported is the one of the first check that fails, in
\* the order non-empty, forbidden keyword, first token select, single
\* statement, tables; a text that passes the first four is accepted or
\* rejected for its tables.
C17_FirstFailingCheckWins ==
    JustValidated =>
        IF ~HasToken(ValidatedText)
        THEN RejectedWith("No SQL to validate.")
        ELSE IF ContainsDenylisted(ValidatedText)
        THEN /\ RejectedWith("Forbidden or invalid SQL detected: ")
             /\ Len(state.error.detail) = 1
             /\ state.error.detail[1] \in FORBIDDEN_KEYWORDS
        ELSE IF Lower(FirstToken(ValidatedText)) # "select"
        THEN Rejected /\ state.error = NonSelectError
        ELSE IF Len(sqlparse_split(ValidatedText)) # 1
        THEN RejectedWith("Multiple SQL statements detected; only one SELECT is allowed.")
        ELSE \/ Accepted
             \/ RejectedWith("No table referenced (missing FROM?).")
             \/ RejectedWith("Illegal table(s): ")

\* C18: a single SELECT whose tables are all on the allow-list once letter
\* case is set aside, one of them written in another case than the list's,
\* is accepted.
C18_TablesMatchedCaseInsensitively ==
    (/\ JustValidated
     /\ HasToken(ValidatedText)
     /\ Lower(FirstToken(ValidatedText)) = "select"
     /\ ~ContainsDenylisted(ValidatedText)
     /\ Len(sqlparse_split(ValidatedText)) = 1
     /\ \A t \in TableRefs(ValidatedText) : \E a \in ALLOWED_TABLES : Lower(t) = Lower(a)
     /\ \E t \in TableRefs(ValidatedText) : t \notin ALLOWED_TABLES)
        => Accepted

\* The dict validate_sql was called with.
ValidateInput == [question |-> state.question, sql |-> ValidatedText]

\* C19: what validate_sql came to for a text is what it comes to for that
\* text in every process, whatever order the process iterates the keyword
\* set in.
C19_ValidateDeterministic ==
    (JustValidated /\ "sql" \in DOMAIN state) =>
        \A o \in KwOrders :
            LET r == validate_sql(ValidateInput, o)
            IN  /\ r.raised = (pc = "Raised")
                /\ ~r.raised => Merge(ValidateInput, r.delta) = state

\* C20: an empty or whitespace-only text is rejected with "No SQL to
\* validate.".
C20_BlankTextRejected ==
    (JustValidated /\ ~HasToken(ValidatedText))
        => (Rejected /\ state.error = Err("No SQL to validate.", <<>>))

\* The step taken is a call of the node "node".
StepOf(node) == visited' = Append(visited, node)

\* C21: a call of validate_sql that rejects leaves the sql of the state, and
\* the dict it was handed, as they were; what it returns sets is_valid and
\* error and nothing else.
C21_RejectLeavesSqlAlone ==
    [][(StepOf("validate_sql_query") /\ pc' = "error")
          => /\ arg' = state
             /\ DOMAIN state' = DOMAIN state \cup {"is_valid", "error"}
             /\ \A k \in DOMAIN state \ {"is_valid", "error"} : state'[k] = state[k]]_vars

\* A text with a LIMIT above MAX_LIMIT, rejected for its table: the state
\* and the dict still hold it as it was.
C21_Witness ==
    /\ RejectedWith("Illegal table(s): ")
    /\ ~LimitsWithin(ValidatedText, MAX_LIMIT)
    /\ Rewritten = ValidatedText

RetrievedFields == {"question", "context_chunks", "tables_in_scope"}

\* C22: a step leaves every field its delta does not hold as it was and
\* gives every field its delta holds the delta's value (shown on the call of
\* validate_sql, whose delta is fixed by the state); question,
\* context_chunks and tables_in_scope, once written, never change and are
\* present at the end of the run.
C22_MergeFieldByField ==
    /\ [](pc = "Done" => RetrievedFields \subseteq DOMAIN state)
    /\ [][(\A f \in RetrievedFields \cap DOMAIN state :
                f \in DOMAIN state' /\ state'[f] = state[f])
           /\ ((StepOf("validate_sql_query") /\ pc' # "Raised")
                 => LET d == validate_sql(state, hashOrder).delta
                    IN  /\ DOMAIN state' = DOMAIN state \cup DOMAIN d
                        /\ \A k \in DOMAIN state' :
                              state'[k] = IF k \in DOMAIN d THEN d[k] ELSE state[k])]_vars

\* A run that ended after validate_sql overwrote the generator's error, its
\* retrieved context still in the state.
C22_Witness ==
    /\ pc = "Done"
    /\ state.context_chunks # <<>>
    /\ state.tables_in_scope = {"orders"}
    /\ "sql" \notin DOMAIN state
    /\ state.error = Err("No SQL to validate.", <<>>)

\* C23: the error node leaves the state as it was: no field changes and no
\* field is added.
C23_ErrorNodeIsNoOp ==
    [][StepOf("error") => (pc' = "END" /\ state' = state /\ arg' = state)]_vars

\* The error node has run on a state that holds a rejected sql.
C23_Witness ==
    /\ pc = "END"
    /\ visited # <<>>
    /\ visited[Len(visited)] = "error"
    /\ "sql" \in DOMAIN state
    /\ "error" \in DOMAIN state

\* The executor ran last and the database raised.
ExecuteFailed ==
    /\ visited # <<>>
    /\ visited[Len(visited)] = "execute_sql_query"
    /\ "error" \in DOMAIN state

\* C24: when the database raises, the call of the executor adds
\* error = "DB error: <cause>" to the state and nothing else: rows stays
\* absent, sql and is_valid keep their values; the run is then at the end of
\* the graph, from where its one step is the response.
C24_DbErrorBecomesErrorDelta ==
    [][/\ (StepOf("execute_sql_query") /\ "error" \in DOMAIN state')
            => /\ pc' = "END"
               /\ DOMAIN state' = DOMAIN state \cup {"error"}
               /\ \A k \in DOMAIN state : state'[k] = state[k]
               /\ state'.error.msg = "DB error: "
               /\ Len(state'.error.detail) = 1
               /\ "rows" \notin DOMAIN state'
               /\ "sql" \in DOMAIN state' /\ state'.is_valid
       /\ (ExecuteFailed /\ pc = "END")
            => (pc' = "Done" /\ state' = state /\ response' # <<>>)]_vars

C24_Witness ==
    /\ pc = "Done"
    /\ ExecuteFailed
    /\ response[1].error = <<Err("DB error: ", <<"connection refused">>)>>
    /\ response[1].rows = <<>>
    /\ response[1].sql # <<>>

\* The text ends with LIMIT n; only whitespace may follow the number.
EndsWithLimit(sql) ==
    \E i \in 1..Len(sql) :
        /\ LimitAt(sql, i)
        /\ \A k \in (SkipWS(sql, i + 1) + 1)..Len(sql) : sql[k] \in WS

\* What the generator makes of a completion.
Generated(raw) ==
    llm_generate_sql([question |-> "How many orders?"],
                     [kind |-> "answer", status |-> 200, response |-> raw]).delta

\* The completion of end-to-end scenario 1 and the sql expected of it.
Scenario1Raw == <<"SELECT", " ", "*", " ", "FROM", " ", "orders">>

Scenario1Sql == Scenario1Raw \o <<" ", "LIMIT", " ", "100">>

\* C25: every sql the generator hands on ends with LIMIT n: a statement
\* without one gets LIMIT MAX_LIMIT appended, one with a trailing LIMIT n is
\* passed on as it is.  The completion "SELECT * FROM orders" becomes
\* "SELECT * FROM orders LIMIT 100", validate_sql accepts it and rewrites
\* nothing, the executor runs that text, and the run ends with rows set
\* whenever the database answers.
C25_GeneratedSqlEndsWithLimit ==
    /\ (visited # <<>> /\ visited[Len(visited)] = "generate_sql_query"
          /\ "sql" \in DOMAIN state)
          => EndsWithLimit(state.sql)
    /\ Generated(Scenario1Raw) = [sql |-> Scenario1Sql]
    /\ Generated(Scenario1Raw \o <<" ", "limit", " ", "5">>)
          = [sql |-> Scenario1Raw \o <<" ", "limit", " ", "5">>]
    /\ Generated(Scenario1Raw \o <<" ", "LIMIT", " ", "5000", ";">>)
          = [sql |-> Scenario1Raw \o <<" ", "LIMIT", " ", "5000">>]
    /\ (JustValidated /\ ValidatedText = Scenario1Sql)
          => (Accepted /\ Rewritten = Scenario1Sql)
    /\ (pc = "Done" /\ ValidatedText = Scenario1Sql)
          => /\ executed = <<Scenario1Sql>>
             /\ response[1].sql = <<Scenario1Sql>>
             /\ \/ response[1].rows # <<>> /\ response[1].error = <<>>
                \/ response[1].rows = <<>> /\ state.error.msg = "DB error: "

\* Scenario 1 has run to its end and the response holds rows.
C25_Witness ==
    /\ pc = "Done"
    /\ ValidatedText = Scenario1Sql
    /\ visited = <<"retrieve_schema_context", "generate_sql_query",
                   "validate_sql_query", "execute_sql_query">>
    /\ response[1].rows = << <<[id |-> 1]>> >>

PathExecute ==
    <<"retrieve_schema_context", "generate_sql_query", "validate_sql_query",
      "execute_sql_query">>

PathError ==
    <<"retrieve_schema_context", "generate_sql_query", "validate_sql_query", "error">>

IsPrefix(p, q) == Len(p) <= Len(q) /\ SubSeq(q, 1, Len(p)) = p

InOrder(p) == IsPrefix(p, PathExecute) \/ IsPrefix(p, PathError)

\* C26: the nodes a run has called are, in order and once each, retrieve,
\* generate, validate and then either execute or error, never both; the node
\* the run is at is the next of that order, and the run is at its end only
\* after one of the two full paths.
C26_StepsOnceInOrder ==
    /\ InOrder(visited)
    /\ pc \in Nodes => InOrder(Append(visited, pc))
    /\ pc \in {"END", "Done"} => visited \in {PathExecute, PathError}
    /\ ~(Ran("execute_sql_query") /\ Ran("error"))

\* A run that failed in validation and ended through the error node.
C26_Witness ==
    /\ pc = "Done"
    /\ visited = PathError
    /\ response[1].error # <<>>

====
